---- MODULE Spec2Model ----
(***************************************************************************)
(* A model of src/src/openvpn/xkey_provider.c: the key record              *)
(* (XKEY_KEYDATA), the key management callbacks that act on it and the     *)
(* provider context they delegate through.                                 *)
(*                                                                         *)
(* Pointers are modelled by names: a key record by its address in Keys, a  *)
(* native EVP_PKEY by the pair <<record, "pub" | "priv">> of the import    *)
(* that created it, an EVP_PKEY_CTX by the record whose import created it. *)
(* C truth values are kept as integers (0 is false, anything else true),   *)
(* since EVP_PKEY_eq answers 1, 0 or a negative number.                    *)
(***************************************************************************)
EXTENDS Integers, FiniteSets, Sequences, TLC

\* ------------------------------------------------------------- bounds

\* The largest number of extra references taken on one record.
MaxRefcount == 1

\* Key material is one of the values 1..MaxVal.
MaxVal == 3

\* ------------------------------------------------------------- values

NULL == "NULL"

\* The addresses the allocator hands out for key records.
Keys == {"k1", "k2"}

KeyArgs == Keys \cup {NULL}

\* The two key families: the name handed to the native constructor.
Names == {"RSA", "EC"}

\* The bits of a selection, as a set of bit names.
OSSL_KEYMGMT_SELECT_PRIVATE_KEY == {"PRIVATE_KEY"}

OSSL_KEYMGMT_SELECT_PUBLIC_KEY == {"PUBLIC_KEY"}

OSSL_KEYMGMT_SELECT_DOMAIN_PARAMETERS == {"DOMAIN_PARAMETERS"}

OSSL_KEYMGMT_SELECT_KEYPAIR ==
    OSSL_KEYMGMT_SELECT_PRIVATE_KEY \cup OSSL_KEYMGMT_SELECT_PUBLIC_KEY

Selections ==
    SUBSET (OSSL_KEYMGMT_SELECT_KEYPAIR \cup OSSL_KEYMGMT_SELECT_DOMAIN_PARAMETERS)

\* A C condition as an int.
CBool(b) == IF b THEN 1 ELSE 0

\* selection & mask, as a C condition.
Requests(selection, mask) == (selection \cap mask) # {}

Vals == 1..MaxVal

\* The parameter lists handed to an import or a set: the key value they carry.
Params == Vals

\* The domain parameters (the curve, the modulus size) a key value lies in:
\* the values fall into two classes, so that two different keys may or may
\* not share their domain parameters.
GrpOf(v) == v % 2

\* A native key object (EVP_PKEY): its type, its public value, whether it
\* carries the private components and the library context it was built in.
\* NoKey is a freed / never allocated object.
NoKey == [type |-> "none", val |-> 0, priv |-> FALSE, libctx |-> "none"]

\* The library context a native call given libctx works in: NULL stands for
\* the host's default library context.
LibctxOf(libctx) == IF libctx = NULL THEN "default" ELSE libctx

EvpObjects == Keys \X {"pub", "priv"}

\* XKEY_ORIGIN
XKEY_ORIGIN == {"ORIGIN_UNDEFINED", "OPENSSL_NATIVE", "EXTERNAL_KEY"}

\* The memory OPENSSL_zalloc returns for a XKEY_KEYDATA: all fields zero.
\* free is the function pointer line 223 stores; the struct of lines 82-92
\* does not declare it and keydata_free never reads it.
ZeroKeydata ==
    [mem |-> "live", handle |-> NULL, pubkey |-> NULL,
     origin |-> "ORIGIN_UNDEFINED", prov |-> NULL, refcount |-> 0,
     free |-> NULL]

\* An address the allocator has not handed out yet.
NoKeydata == [ZeroKeydata EXCEPT !.mem = "unalloc"]

\* A record given back to the allocator: what its memory holds is
\* indeterminate, and the model keeps none of it.
FreedKeydata == [ZeroKeydata EXCEPT !.mem = "freed"]

VARIABLES
    prov,       \* the XKEY_PROVIDER_CTX and what xkey_provider_init set up
    key,        \* key[k]: the XKEY_KEYDATA at address k
    evp,        \* evp[o]: the native EVP_PKEY object o, NoKey when not allocated
    ctxLive,    \* the EVP_PKEY_CTX objects allocated and not freed
    imported,   \* history: the records on which an import returned 1
    privBuilt,  \* history: the records whose import built the private half
    fault,      \* "none", or the undefined behaviour the run has met
    last,       \* the last call: its arguments and its return value
    thr,        \* thr[t]: where reader thread t stands inside its call
    imp,        \* where the importing thread stands inside keymgmt_import
    pend        \* the stores of the import not yet visible to other threads

vars == <<prov, key, evp, ctxLive, imported, privBuilt, fault, last, thr, imp,
          pend>>

Call(op, k1, k2, selection, ret, deleg) ==
    [op |-> op, k1 |-> k1, k2 |-> k2, sel |-> selection, ret |-> ret,
     deleg |-> deleg]

NoCall == Call("none", NULL, NULL, {}, 0, FALSE)

\* The threads of the host that call the read-only callbacks at the same time.
Threads == {"t1", "t2"}

\* A reader thread outside every call.
IdleThread ==
    [pc |-> "idle", op |-> "none", k1 |-> NULL, k2 |-> NULL, sel |-> {},
     nat |-> FALSE, acc |-> 0]

\* No import is in progress step by step.
NoImport ==
    [pc |-> "idle", k |-> NULL, sel |-> {}, p |-> 0, name |-> "none",
     ret |-> 0]

\* The host makes one call at a time: a call starts when the result of the
\* one before has been taken, and no call is made once the process has met
\* undefined behaviour.
Idle == fault = "none" /\ last = NoCall

Init ==
    /\ prov = [loaded |-> FALSE, libctx |-> NULL, childProps |-> FALSE,
               hostProps |-> FALSE]
    /\ key = [k \in Keys |-> NoKeydata]
    /\ evp = [o \in EvpObjects |-> NoKey]
    /\ ctxLive = {}
    /\ imported = {}
    /\ privBuilt = {}
    /\ fault = "none"
    /\ last = NoCall
    /\ thr = [t \in Threads |-> IdleThread]
    /\ imp = NoImport
    /\ pend = {}

\* ------------------------------------------------------- provider init

\* xkey_provider_init: the context is allocated, the child libctx is made
\* (its result is not tested) and the default properties are set on it;
\* EVP_set_default_properties(NULL, ...) acts on the host's default libctx.
xkey_provider_init(zallocOk, childOk) ==
    /\ Idle
    /\ ~prov.loaded
    /\ IF ~zallocOk
       THEN /\ last' = Call("init", NULL, NULL, {}, 0, FALSE)
            /\ UNCHANGED prov
       ELSE /\ prov' = [loaded |-> TRUE,
                        libctx |-> IF childOk THEN "child" ELSE NULL,
                        childProps |-> childOk,
                        hostProps |-> ~childOk]
            /\ last' = Call("init", NULL, NULL, {}, 1, FALSE)
    /\ UNCHANGED <<key, evp, ctxLive, imported, privBuilt, fault>>
    /\ UNCHANGED <<thr, imp, pend>>

\* ------------------------------------------------------- key record

\* keydata_new: a zeroed record, or NULL when out of memory.
keydata_new(allocOk) == IF allocOk THEN ZeroKeydata ELSE NoKeydata

\* keymgmt_new: keydata_new, then key->prov = provctx.
keymgmt_new(k, allocOk) ==
    /\ Idle
    /\ prov.loaded
    /\ key[k].mem = "unalloc"
    /\ IF allocOk
       THEN /\ key' = [key EXCEPT ![k] = [keydata_new(allocOk) EXCEPT !.prov = "prov"]]
            /\ last' = Call("new", k, NULL, {}, 1, FALSE)
       ELSE /\ last' = Call("new", NULL, NULL, {}, 0, FALSE)
            /\ UNCHANGED key
    /\ UNCHANGED <<prov, evp, ctxLive, imported, privBuilt, fault>>
    /\ UNCHANGED <<thr, imp, pend>>

\* retain: the spec's operation that takes one more reference on a record
\* (the source has no caller that does it).
retain(k) ==
    /\ Idle
    /\ key[k].mem = "live"
    /\ key[k].refcount < MaxRefcount
    /\ key' = [key EXCEPT ![k].refcount = @ + 1]
    /\ last' = Call("retain", k, NULL, {}, 1, FALSE)
    /\ UNCHANGED <<prov, evp, ctxLive, imported, privBuilt, fault>>
    /\ UNCHANGED <<thr, imp, pend>>

\* EVP_PKEY_free as the source uses it: NULL is never passed, and every
\* object has the one reference its constructor gave it.
EVP_PKEY_free(heap, pkey) ==
    IF pkey = NULL THEN heap ELSE [heap EXCEPT ![pkey] = NoKey]

\* keydata_free, the test of line 133: key->refcount-- > 0 compares the
\* count before the decrement.
KeydataFreeKeeps(rec) == rec.refcount > 0

\* keydata_free, lines 137-140: the native objects the destruction releases.
KeydataFreeNative(heap, rec) ==
    IF rec.pubkey # NULL THEN EVP_PKEY_free(heap, rec.pubkey) ELSE heap

\* keydata_free on a record that is allocated.
keydata_free(k) ==
    IF KeydataFreeKeeps(key[k])
    THEN /\ key' = [key EXCEPT ![k].refcount = @ - 1]
         /\ UNCHANGED evp
    ELSE /\ evp' = KeydataFreeNative(evp, key[k])
         /\ key' = [key EXCEPT ![k] = FreedKeydata]

\* keymgmt_free: keydata_free(keydata).  On NULL it returns at once.  On a
\* record already freed, line 133 reads and decrements key->refcount in
\* freed memory: the value read is whatever the allocator left there, so the
\* call either returns (garbage > 0) or goes on to free the record again.
keymgmt_free(k, garbagePositive) ==
    /\ Idle
    /\ k # NULL => key[k].mem # "unalloc"
    /\ last' = Call("free", k, NULL, {}, 0, FALSE)
    /\ IF k = NULL
       THEN UNCHANGED <<key, evp, fault>>
       ELSE IF key[k].mem = "live"
       THEN keydata_free(k) /\ UNCHANGED fault
       ELSE /\ fault' = IF garbagePositive THEN "use_after_free" ELSE "double_free"
            /\ UNCHANGED <<key, evp>>
    /\ UNCHANGED <<prov, ctxLive, imported, privBuilt>>
    /\ UNCHANGED <<thr, imp, pend>>

\* ------------------------------------------------------------- import

\* The answers of the native constructor calls of lines 197-200:
\* no context, fromdata_init failed, fromdata failed leaving *ppkey NULL or
\* set, or all three succeeded.
NativeOutcomes == {"no_ctx", "init_fail", "fromdata_fail", "fromdata_fail_pkey", "ok"}

\* The native object EVP_PKEY_fromdata builds from a family name, a
\* selection and the parameters.
EVP_PKEY_fromdata(libctx, name, selection, p) ==
    [type |-> name, val |-> p,
     priv |-> Requests(selection, OSSL_KEYMGMT_SELECT_PRIVATE_KEY),
     libctx |-> libctx]

\* line 197: EVP_PKEY_CTX_new_from_name(key->prov->libctx, name, NULL), the
\* library context the native constructor works in.
ImportLibctx(rec) == LibctxOf(IF rec.prov = NULL THEN NULL ELSE prov.libctx)

EVP_PKEY_CTX_free(live, ctx) == live \ {ctx}

\* A variant of line 187 that tests the private handle only.
ImportNotEmpty_HandleOnly(rec) == rec.handle # NULL

\* line 187: the record is not empty.
ImportNotEmpty(rec) == rec.handle # NULL \/ rec.pubkey # NULL

\* A variant of lines 203-206 that forgets the partly built key.
ImportFailFreePkey_Forgotten(heap, pkey) == heap

\* lines 203-206: the failure path releases a partly built key.
ImportFailFreePkey(heap, pkey) ==
    IF pkey # NULL THEN EVP_PKEY_free(heap, pkey) ELSE heap

\* lines 207-210: the failure path releases the constructor context.
ImportFailFreeCtx(live, ctx) ==
    IF ctx # NULL THEN EVP_PKEY_CTX_free(live, ctx) ELSE live

\* A variant of lines 214-215 that sets the origin and not the key.
ImportAttachPublic_OriginOnly(rec, pkey) == [rec EXCEPT !.origin = "OPENSSL_NATIVE"]

\* A variant of lines 214-215 that leaves the origin as it is.
ImportAttachPublic_NoOrigin(rec, pkey) == [rec EXCEPT !.pubkey = pkey]

\* lines 214-215
ImportAttachPublic(rec, pkey) ==
    [rec EXCEPT !.pubkey = pkey, !.origin = "OPENSSL_NATIVE"]

\* A variant of lines 222-223 that records the free function but not the key.
ImportAttachPrivate_NoHandle(rec, pkey) == [rec EXCEPT !.free = "EVP_PKEY_free"]

\* lines 222-223
ImportAttachPrivate(rec, pkey) ==
    [rec EXCEPT !.handle = pkey, !.free = "EVP_PKEY_free"]

\* line 216 and line 220: the private half is built when the selection asks
\* for it and the native constructor answers 1.
ImportBuildsPrivate(selection, privOk) ==
    Requests(selection, OSSL_KEYMGMT_SELECT_PRIVATE_KEY) /\ privOk

\* line 228: the debug message names the type of pkey.  pkey is the public
\* key when no private key was asked for, the private key when it was built,
\* and NULL (line 219) when it was asked for and not built; xkey_dmsg
\* evaluates EVP_PKEY_get0_type_name(pkey) when messages of level D_LOW are
\* printed, and that function reads through its argument.
ImportMessageReadsNull(selection, privOk, dmsgOn) ==
    /\ dmsgOn
    /\ Requests(selection, OSSL_KEYMGMT_SELECT_PRIVATE_KEY)
    /\ ~privOk

keymgmt_import(k, selection, p, name, nat, privOk, dmsgOn) ==
    /\ Idle
    /\ key[k].mem = "live"
    /\ IF ImportNotEmpty(key[k])
       THEN /\ last' = Call("import", k, NULL, selection, 0, FALSE)
            /\ UNCHANGED <<key, evp, ctxLive, imported, privBuilt, fault>>
       ELSE LET selection_pub == selection \ OSSL_KEYMGMT_SELECT_PRIVATE_KEY
                ctx == IF nat = "no_ctx" THEN NULL ELSE k
                ctxs == IF ctx = NULL THEN ctxLive ELSE ctxLive \cup {ctx}
                pkey == IF nat \in {"fromdata_fail_pkey", "ok"}
                        THEN <<k, "pub">> ELSE NULL
                heap == IF pkey = NULL THEN evp
                        ELSE [evp EXCEPT ![pkey] =
                                 EVP_PKEY_fromdata(ImportLibctx(key[k]), name,
                                                   selection_pub, p)]
            IN  IF nat # "ok"
                THEN /\ evp' = ImportFailFreePkey(heap, pkey)
                     /\ ctxLive' = ImportFailFreeCtx(ctxs, ctx)
                     /\ last' = Call("import", k, NULL, selection, 0, TRUE)
                     /\ UNCHANGED <<key, imported, privBuilt, fault>>
                ELSE LET built == ImportBuildsPrivate(selection, privOk)
                         priv == <<k, "priv">>
                         rec1 == ImportAttachPublic(key[k], pkey)
                     IN  /\ key' = [key EXCEPT ![k] =
                                       IF built THEN ImportAttachPrivate(rec1, priv)
                                       ELSE rec1]
                         /\ evp' = IF built
                                   THEN [heap EXCEPT ![priv] =
                                            EVP_PKEY_fromdata(ImportLibctx(key[k]),
                                                              name, selection, p)]
                                   ELSE heap
                         /\ ctxLive' = EVP_PKEY_CTX_free(ctxs, ctx)
                         /\ IF ImportMessageReadsNull(selection, privOk, dmsgOn)
                            THEN /\ fault' = "null_deref"
                                 /\ UNCHANGED <<imported, privBuilt, last>>
                            ELSE /\ imported' = imported \cup {k}
                                 /\ privBuilt' = IF built THEN privBuilt \cup {k}
                                                 ELSE privBuilt
                                 /\ last' = Call("import", k, NULL, selection, 1, TRUE)
                                 /\ UNCHANGED fault
    /\ UNCHANGED prov
    /\ UNCHANGED <<thr, imp, pend>>

rsa_keymgmt_import(k, selection, p, nat, privOk, dmsgOn) ==
    keymgmt_import(k, selection, p, "RSA", nat, privOk, dmsgOn)

ec_keymgmt_import(k, selection, p, nat, privOk, dmsgOn) ==
    keymgmt_import(k, selection, p, "EC", nat, privOk, dmsgOn)

\* ------------------------------------------------------- import types

\* static const OSSL_PARAM key_types[] = { OSSL_PARAM_END }: the descriptors
\* before the end marker.
key_types == <<>>

\* A variant of keymgmt_import_types that answers for every selection.
ImportTypesResult_Always(selection) == "key_types"

\* keymgmt_import_types, lines 260-264: the pointer returned.
ImportTypesResult(selection) ==
    IF Requests(selection, OSSL_KEYMGMT_SELECT_PUBLIC_KEY)
    THEN "key_types" ELSE NULL

\* keymgmt_import_types: ret is whether the pointer returned is not NULL.
keymgmt_import_types(selection) ==
    /\ Idle
    /\ prov.loaded
    /\ last' = Call("import_types", NULL, NULL, selection,
                    CBool(ImportTypesResult(selection) # NULL), FALSE)
    /\ UNCHANGED <<prov, key, evp, ctxLive, imported, privBuilt, fault>>
    /\ UNCHANGED <<thr, imp, pend>>

\* ------------------------------------------------------ has and match

\* A variant of keymgmt_has that does not look at the private-key bit.
HasResult_PublicOnly(k, selection) ==
    LET ok0 == CBool(k # NULL)
    IN  IF Requests(selection, OSSL_KEYMGMT_SELECT_PUBLIC_KEY)
        THEN CBool(ok0 # 0 /\ key[k].pubkey # NULL) ELSE ok0

\* keymgmt_has, lines 281-292: the value returned for a record (or NULL)
\* and a selection.  ok && key->pubkey is evaluated left to right.
HasResult(k, selection) ==
    LET ok0 == CBool(k # NULL)
        ok1 == IF Requests(selection, OSSL_KEYMGMT_SELECT_PUBLIC_KEY)
               THEN CBool(ok0 # 0 /\ key[k].pubkey # NULL) ELSE ok0
        ok2 == IF Requests(selection, OSSL_KEYMGMT_SELECT_PRIVATE_KEY)
               THEN CBool(ok1 # 0 /\ key[k].handle # NULL) ELSE ok1
    IN  ok2

keymgmt_has(k, selection) ==
    /\ Idle
    /\ k # NULL => key[k].mem = "live"
    /\ last' = Call("has", k, NULL, selection, HasResult(k, selection), FALSE)
    /\ UNCHANGED <<prov, key, evp, ctxLive, imported, privBuilt, fault>>
    /\ UNCHANGED <<thr, imp, pend>>

\* The native equality test: 1 equal, 0 not equal, -1 the key types differ.
EVP_PKEY_eq(a, b) ==
    IF a.type # b.type THEN -1
    ELSE IF a.val = b.val THEN 1 ELSE 0

\* The native test of the domain parameters, with the same answers.
EVP_PKEY_parameters_eq(a, b) ==
    IF a.type # b.type THEN -1
    ELSE IF GrpOf(a.val) = GrpOf(b.val) THEN 1 ELSE 0

\* The native object a pubkey pointer refers to (no object behind NULL).
Deref(pkey) == IF pkey = NULL THEN NoKey ELSE evp[pkey]

\* A variant of line 303 that tests the first record's public key only.
MatchBothPublic_FirstOnly(k1, k2) ==
    CBool(k1 # NULL /\ k2 # NULL /\ key[k1].pubkey # NULL)

\* keymgmt_match, line 303
MatchBothPublic(k1, k2) ==
    CBool(k1 # NULL /\ k2 # NULL /\ key[k1].pubkey # NULL /\ key[k2].pubkey # NULL)

\* A variant of line 309 that also compares the presence of the handles.
MatchKeypair_WithHandles(ret, k1, k2) ==
    CBool(ret # 0
          /\ EVP_PKEY_eq(Deref(key[k1].pubkey), Deref(key[k2].pubkey)) # 0
          /\ (key[k1].handle = NULL <=> key[k2].handle = NULL))

\* keymgmt_match, line 309: ret && EVP_PKEY_eq(...), any answer but 0 is true.
MatchKeypair(ret, k1, k2) ==
    CBool(ret # 0
          /\ EVP_PKEY_eq(Deref(key[k1].pubkey), Deref(key[k2].pubkey)) # 0)

\* keymgmt_match, line 315
MatchParameters(ret, k1, k2) ==
    CBool(ret # 0
          /\ EVP_PKEY_parameters_eq(Deref(key[k1].pubkey),
                                    Deref(key[k2].pubkey)) # 0)

\* keymgmt_match, lines 303-319
MatchResult(k1, k2, selection) ==
    LET r0 == MatchBothPublic(k1, k2)
        r1 == IF Requests(selection, OSSL_KEYMGMT_SELECT_KEYPAIR)
              THEN MatchKeypair(r0, k1, k2) ELSE r0
        r2 == IF Requests(selection, OSSL_KEYMGMT_SELECT_DOMAIN_PARAMETERS)
              THEN MatchParameters(r1, k1, k2) ELSE r1
    IN  r2

keymgmt_match(k1, k2, selection) ==
    /\ Idle
    /\ k1 # NULL => key[k1].mem = "live"
    /\ k2 # NULL => key[k2].mem = "live"
    /\ last' = Call("match", k1, k2, selection, MatchResult(k1, k2, selection),
                    MatchBothPublic(k1, k2) # 0
                    /\ Requests(selection, OSSL_KEYMGMT_SELECT_KEYPAIR
                                  \cup OSSL_KEYMGMT_SELECT_DOMAIN_PARAMETERS))
    /\ UNCHANGED <<prov, key, evp, ctxLive, imported, privBuilt, fault>>
    /\ UNCHANGED <<thr, imp, pend>>

\* ------------------------------------------------ get and set parameters

\* A variant of line 343 that tests the record pointer only.
GetParamsRefused_NullOnly(k) == k = NULL

\* keymgmt_get_params, line 343: the core answers 0 itself.
GetParamsRefused(k) == k = NULL \/ key[k].pubkey = NULL

\* keymgmt_get_params: refused, or the answer of EVP_PKEY_get_params.
keymgmt_get_params(k, natOk) ==
    /\ Idle
    /\ k # NULL => key[k].mem = "live"
    /\ last' = IF GetParamsRefused(k)
               THEN Call("get_params", k, NULL, {}, 0, FALSE)
               ELSE Call("get_params", k, NULL, {}, CBool(natOk), TRUE)
    /\ UNCHANGED <<prov, key, evp, ctxLive, imported, privBuilt, fault>>
    /\ UNCHANGED <<thr, imp, pend>>

\* A variant of lines 364-377 without the test of the handle.
SetParamsBranch_IgnoreHandle(rec) ==
    IF rec.origin # "OPENSSL_NATIVE" THEN "refuse" ELSE "delegate"

\* A variant of lines 364-377 without the test of the origin.
SetParamsBranch_IgnoreOrigin(rec) ==
    IF rec.handle = NULL THEN "delegate" ELSE "immutable"

\* keymgmt_set_params, lines 364-377: which of the three branches is taken.
SetParamsBranch(rec) ==
    IF rec.origin # "OPENSSL_NATIVE" THEN "refuse"
    ELSE IF rec.handle = NULL THEN "delegate"
    ELSE "immutable"

\* EVP_PKEY_set_params on a native key: on success the key carries the new
\* value; a NULL key is answered with 0.
EVP_PKEY_set_params(heap, pkey, p, natOk) ==
    IF pkey # NULL /\ natOk THEN [heap EXCEPT ![pkey].val = p] ELSE heap

keymgmt_set_params(k, p, natOk) ==
    /\ Idle
    /\ key[k].mem = "live"
    /\ LET branch == SetParamsBranch(key[k])
       IN  /\ evp' = IF branch = "delegate"
                     THEN EVP_PKEY_set_params(evp, key[k].pubkey, p, natOk)
                     ELSE evp
           /\ last' = CASE branch = "refuse" ->
                               Call("set_params", k, NULL, {}, 0, FALSE)
                        [] branch = "delegate" ->
                               Call("set_params", k, NULL, {},
                                    CBool(key[k].pubkey # NULL /\ natOk), TRUE)
                        [] OTHER -> Call("set_params", k, NULL, {}, 1, FALSE)
    /\ UNCHANGED <<prov, key, ctxLive, imported, privBuilt, fault>>
    /\ UNCHANGED <<thr, imp, pend>>

\* The host takes the result of the call it made.
host_returns ==
    /\ fault = "none"
    /\ last # NoCall
    /\ last' = NoCall
    /\ UNCHANGED <<prov, key, evp, ctxLive, imported, privBuilt, fault>>
    /\ UNCHANGED <<thr, imp, pend>>

\* The answers of the second EVP_PKEY_fromdata (line 220) that an import
\* can meet: the call is made only after the public key was built and when
\* the private key is asked for.
PrivateAnswers(selection, nat) ==
    IF nat = "ok" /\ Requests(selection, OSSL_KEYMGMT_SELECT_PRIVATE_KEY)
    THEN BOOLEAN ELSE {FALSE}

\* Whether messages of level D_LOW are printed, where line 228 depends on it.
DmsgLevels(selection, nat, privOk) ==
    IF nat = "ok" /\ Requests(selection, OSSL_KEYMGMT_SELECT_PRIVATE_KEY) /\ ~privOk
    THEN BOOLEAN ELSE {FALSE}

\* The records the host holds a valid pointer to.
Live == {k \in Keys : key[k].mem = "live"}

LiveArgs == Live \cup {NULL}

Next ==
    \/ host_returns
    \/ Idle /\ \E z, c \in BOOLEAN : xkey_provider_init(z, c)
    \/ Idle /\ \E k \in Keys, a \in BOOLEAN : keymgmt_new(k, a)
    \/ Idle /\ \E k \in Live : retain(k)
    \/ Idle /\ \E k \in KeyArgs, g \in BOOLEAN : keymgmt_free(k, g)
    \/ Idle /\ \E k \in Live, s \in Selections, p \in Params,
                  n \in NativeOutcomes :
                      \E b \in PrivateAnswers(s, n) : \E d \in DmsgLevels(s, n, b) :
                          rsa_keymgmt_import(k, s, p, n, b, d)
    \/ Idle /\ \E k \in Live, s \in Selections, p \in Params,
                  n \in NativeOutcomes :
                      \E b \in PrivateAnswers(s, n) : \E d \in DmsgLevels(s, n, b) :
                          ec_keymgmt_import(k, s, p, n, b, d)
    \/ Idle /\ \E s \in Selections : keymgmt_import_types(s)
    \/ Idle /\ \E k \in LiveArgs, s \in Selections : keymgmt_has(k, s)
    \/ Idle /\ \E k1, k2 \in LiveArgs, s \in Selections : keymgmt_match(k1, k2, s)
    \/ Idle /\ \E k \in LiveArgs, b \in BOOLEAN : keymgmt_get_params(k, b)
    \/ Idle /\ \E k \in Live, p \in Params, b \in BOOLEAN : keymgmt_set_params(k, p, b)

Spec == Init /\ [][Next]_vars

\* ------------------------------------------- calls from several threads

\* The largest key value of the records the threads find populated.
MaxSettledVal == 2

\* The states keymgmt_new and a completed keymgmt_import leave a record in.
SettledShapes == {"empty", "public", "keypair"}

\* The record at address k in one of these states.
SettledKeydata(k, shape) ==
    LET empty == [keydata_new(TRUE) EXCEPT !.prov = "prov"]
        public == ImportAttachPublic(empty, <<k, "pub">>)
    IN  CASE shape = "empty" -> empty
          [] shape = "public" -> public
          [] OTHER -> ImportAttachPrivate(public, <<k, "priv">>)

\* The key family of the records the threads find populated.
SettledName == "RSA"

\* The native object o of a record in one of these states, as the import
\* of a key of family name and value p built it in the child libctx.
SettledNative(o, shape, name, p) ==
    CASE shape # "empty" /\ o[2] = "pub" ->
             EVP_PKEY_fromdata("child", name, OSSL_KEYMGMT_SELECT_PUBLIC_KEY, p)
      [] shape = "keypair" /\ o[2] = "priv" ->
             EVP_PKEY_fromdata("child", name, OSSL_KEYMGMT_SELECT_KEYPAIR, p)
      [] OTHER -> NoKey

\* The provider is loaded and every record has been created and is empty
\* or holds a completed import; no call is in progress.
InitSettled ==
    /\ prov = [loaded |-> TRUE, libctx |-> "child", childProps |-> TRUE,
               hostProps |-> FALSE]
    /\ \E sh \in [Keys -> SettledShapes], v \in [Keys -> 1..MaxSettledVal] :
          /\ key = [k \in Keys |-> SettledKeydata(k, sh[k])]
          /\ evp = [o \in EvpObjects |->
                       SettledNative(o, sh[o[1]], SettledName, v[o[1]])]
          /\ imported = {k \in Keys : sh[k] # "empty"}
          /\ privBuilt = {k \in Keys : sh[k] = "keypair"}
    /\ ctxLive = {}
    /\ fault = "none"
    /\ last = NoCall
    /\ thr = [t \in Threads |-> IdleThread]
    /\ imp = NoImport
    /\ pend = {}

\* The record each thread works on: the threads call on different records.
RecordOf(t) == IF t = "t1" THEN "k1" ELSE "k2"

\* What a thread other than the importing one reads in the record at k: a
\* store of lines 214 and 222 that is not visible yet shows the NULL the
\* field held before (the fields are plain, not atomic, and nothing orders
\* the two stores for another thread).
View(k) ==
    [key[k] EXCEPT !.pubkey = IF <<k, "pubkey">> \in pend THEN NULL ELSE @,
                   !.handle = IF <<k, "handle">> \in pend THEN NULL ELSE @]

\* A variant of line 289 that leaves ok as it is.
HasTestPrivate_Skipped(ok, k) == ok

\* keymgmt_has, line 289: ok = ok && key->handle
HasTestPrivate(ok, k) == CBool(ok # 0 /\ View(k).handle # NULL)

\* keymgmt_has, line 285: ok = ok && key->pubkey
HasTestPublic(ok, k) == CBool(ok # 0 /\ View(k).pubkey # NULL)

\* keymgmt_has, lines 281-292, as a thread computes it from what it reads.
ReaderHas(k, selection) ==
    LET ok0 == CBool(k # NULL)
        ok1 == IF Requests(selection, OSSL_KEYMGMT_SELECT_PUBLIC_KEY)
               THEN HasTestPublic(ok0, k) ELSE ok0
    IN  IF Requests(selection, OSSL_KEYMGMT_SELECT_PRIVATE_KEY)
        THEN HasTestPrivate(ok1, k) ELSE ok1

\* keymgmt_get_params, lines 343-348: 0 when refused, else the answer of
\* EVP_PKEY_get_params.
GetParamsResult(k, natOk) == IF GetParamsRefused(k) THEN 0 ELSE CBool(natOk)

\* What the steps of the threads leave alone.
ReaderFrame ==
    UNCHANGED <<prov, key, evp, ctxLive, imported, privBuilt, fault, last,
                imp, pend>>

\* keymgmt_has, lines 278-282: the thread enters with ok = (key != NULL).
has_enter(t, k, selection) ==
    /\ fault = "none"
    /\ thr[t].pc = "idle"
    /\ thr' = [thr EXCEPT ![t] =
                  [IdleThread EXCEPT !.pc = "has_283", !.op = "has", !.k1 = k,
                                     !.sel = selection, !.acc = CBool(k # NULL)]]
    /\ ReaderFrame

\* keymgmt_has, lines 283-286
has_line283(t) ==
    /\ thr[t].pc = "has_283"
    /\ thr' = [thr EXCEPT ![t].pc = "has_287",
                          ![t].acc =
                              IF Requests(thr[t].sel, OSSL_KEYMGMT_SELECT_PUBLIC_KEY)
                              THEN HasTestPublic(@, thr[t].k1) ELSE @]
    /\ ReaderFrame

\* keymgmt_has, lines 287-292
has_line287(t) ==
    /\ thr[t].pc = "has_287"
    /\ thr' = [thr EXCEPT ![t].pc = "ret",
                          ![t].acc =
                              IF Requests(thr[t].sel, OSSL_KEYMGMT_SELECT_PRIVATE_KEY)
                              THEN HasTestPrivate(@, thr[t].k1) ELSE @]
    /\ ReaderFrame

\* keymgmt_match, lines 298-301
match_enter(t, k1, k2, selection) ==
    /\ fault = "none"
    /\ thr[t].pc = "idle"
    /\ thr' = [thr EXCEPT ![t] =
                  [IdleThread EXCEPT !.pc = "match_303", !.op = "match",
                                     !.k1 = k1, !.k2 = k2, !.sel = selection]]
    /\ ReaderFrame

\* keymgmt_match, line 303
match_line303(t) ==
    /\ thr[t].pc = "match_303"
    /\ thr' = [thr EXCEPT ![t].pc = "match_307",
                          ![t].acc = MatchBothPublic(thr[t].k1, thr[t].k2)]
    /\ ReaderFrame

\* keymgmt_match, lines 307-311
match_line307(t) ==
    /\ thr[t].pc = "match_307"
    /\ thr' = [thr EXCEPT ![t].pc = "match_313",
                          ![t].acc =
                              IF Requests(thr[t].sel, OSSL_KEYMGMT_SELECT_KEYPAIR)
                              THEN MatchKeypair(@, thr[t].k1, thr[t].k2) ELSE @]
    /\ ReaderFrame

\* keymgmt_match, lines 313-319
match_line313(t) ==
    /\ thr[t].pc = "match_313"
    /\ thr' = [thr EXCEPT ![t].pc = "ret",
                          ![t].acc =
                              IF Requests(thr[t].sel,
                                          OSSL_KEYMGMT_SELECT_DOMAIN_PARAMETERS)
                              THEN MatchParameters(@, thr[t].k1, thr[t].k2) ELSE @]
    /\ ReaderFrame

\* keymgmt_get_params, lines 339-342; natOk is the answer EVP_PKEY_get_params
\* will give if it is called.
get_params_enter(t, k, natOk) ==
    /\ fault = "none"
    /\ thr[t].pc = "idle"
    /\ thr' = [thr EXCEPT ![t] =
                  [IdleThread EXCEPT !.pc = "get_params_343",
                                     !.op = "get_params", !.k1 = k,
                                     !.nat = natOk]]
    /\ ReaderFrame

\* keymgmt_get_params, lines 343-346
get_params_line343(t) ==
    /\ thr[t].pc = "get_params_343"
    /\ thr' = [thr EXCEPT ![t].pc = IF GetParamsRefused(thr[t].k1)
                                    THEN "ret" ELSE "get_params_348",
                          ![t].acc = 0]
    /\ ReaderFrame

\* keymgmt_get_params, line 348
get_params_line348(t) ==
    /\ thr[t].pc = "get_params_348"
    /\ thr' = [thr EXCEPT ![t].pc = "ret", ![t].acc = CBool(thr[t].nat)]
    /\ ReaderFrame

\* The thread takes the result of its call.
reader_returns(t) ==
    /\ thr[t].pc = "ret"
    /\ thr' = [thr EXCEPT ![t] = IdleThread]
    /\ ReaderFrame

\* The arguments thread t calls with: its own record, or NULL.
OwnArgs(t) == {RecordOf(t), NULL}

NextReaders ==
    \/ \E t \in Threads : \E k \in OwnArgs(t), s \in Selections :
           has_enter(t, k, s)
    \/ \E t \in Threads : has_line283(t)
    \/ \E t \in Threads : has_line287(t)
    \/ \E t \in Threads, k2 \in KeyArgs, s \in Selections :
           match_enter(t, RecordOf(t), k2, s)
    \/ \E t \in Threads : match_line303(t)
    \/ \E t \in Threads : match_line307(t)
    \/ \E t \in Threads : match_line313(t)
    \/ \E t \in Threads : \E k \in OwnArgs(t), b \in BOOLEAN :
           get_params_enter(t, k, b)
    \/ \E t \in Threads : get_params_line343(t)
    \/ \E t \in Threads : get_params_line348(t)
    \/ \E t \in Threads : reader_returns(t)

\* Threads calling keymgmt_has, keymgmt_match and keymgmt_get_params at the
\* same time, each on its own record, with no other call in progress.
SpecReaders == InitSettled /\ [][NextReaders]_vars

\* ------------------------------------- an import, one statement at a time

\* What the steps of the import leave alone besides what each names.
ImportFrame == UNCHANGED <<prov, last, thr>>

\* keymgmt_import, lines 181-184
import_enter(k, selection, p, name) ==
    /\ fault = "none"
    /\ imp.pc = "idle"
    /\ key[k].mem = "live"
    /\ imp' = [NoImport EXCEPT !.pc = "import_187", !.k = k, !.sel = selection,
                               !.p = p, !.name = name]
    /\ UNCHANGED <<key, evp, ctxLive, imported, privBuilt, fault, pend>>
    /\ ImportFrame

\* keymgmt_import, lines 187-191
import_line187 ==
    /\ imp.pc = "import_187"
    /\ imp' = IF ImportNotEmpty(key[imp.k])
              THEN [imp EXCEPT !.pc = "ret", !.ret = 0]
              ELSE [imp EXCEPT !.pc = "import_197"]
    /\ UNCHANGED <<key, evp, ctxLive, imported, privBuilt, fault, pend>>
    /\ ImportFrame

\* keymgmt_import, lines 194-212: the native construction of the public
\* key and the cleanup when it fails.
import_line197(nat) ==
    /\ imp.pc = "import_197"
    /\ LET k == imp.k
           selection_pub == imp.sel \ OSSL_KEYMGMT_SELECT_PRIVATE_KEY
           ctx == IF nat = "no_ctx" THEN NULL ELSE k
           ctxs == IF ctx = NULL THEN ctxLive ELSE ctxLive \cup {ctx}
           pkey == IF nat \in {"fromdata_fail_pkey", "ok"}
                   THEN <<k, "pub">> ELSE NULL
           heap == IF pkey = NULL THEN evp
                   ELSE [evp EXCEPT ![pkey] =
                            EVP_PKEY_fromdata(ImportLibctx(key[k]), imp.name,
                                              selection_pub, imp.p)]
       IN  IF nat # "ok"
           THEN /\ evp' = ImportFailFreePkey(heap, pkey)
                /\ ctxLive' = ImportFailFreeCtx(ctxs, ctx)
                /\ imp' = [imp EXCEPT !.pc = "ret", !.ret = 0]
           ELSE /\ evp' = heap
                /\ ctxLive' = ctxs
                /\ imp' = [imp EXCEPT !.pc = "import_214"]
    /\ UNCHANGED <<key, imported, privBuilt, fault, pend>>
    /\ ImportFrame

\* keymgmt_import, lines 214-215: the stores are made, and are not yet
\* visible to the other threads.
import_line214 ==
    /\ imp.pc = "import_214"
    /\ key' = [key EXCEPT ![imp.k] = ImportAttachPublic(@, <<imp.k, "pub">>)]
    /\ pend' = pend \cup {<<imp.k, "pubkey">>}
    /\ imp' = [imp EXCEPT !.pc = "import_216"]
    /\ UNCHANGED <<evp, ctxLive, imported, privBuilt, fault>>
    /\ ImportFrame

\* keymgmt_import, lines 216-221: the native construction of the private key
import_line216(privOk) ==
    /\ imp.pc = "import_216"
    /\ IF ImportBuildsPrivate(imp.sel, privOk)
       THEN /\ evp' = [evp EXCEPT ![<<imp.k, "priv">>] =
                          EVP_PKEY_fromdata(ImportLibctx(key[imp.k]), imp.name,
                                            imp.sel, imp.p)]
            /\ imp' = [imp EXCEPT !.pc = "import_222"]
       ELSE /\ imp' = [imp EXCEPT !.pc = "import_226"]
            /\ UNCHANGED evp
    /\ UNCHANGED <<key, ctxLive, imported, privBuilt, fault, pend>>
    /\ ImportFrame

\* keymgmt_import, lines 222-223
import_line222 ==
    /\ imp.pc = "import_222"
    /\ key' = [key EXCEPT ![imp.k] = ImportAttachPrivate(@, <<imp.k, "priv">>)]
    /\ pend' = pend \cup {<<imp.k, "handle">>}
    /\ imp' = [imp EXCEPT !.pc = "import_226"]
    /\ UNCHANGED <<evp, ctxLive, imported, privBuilt, fault>>
    /\ ImportFrame

\* keymgmt_import, lines 226-229
import_line226(dmsgOn) ==
    /\ imp.pc = "import_226"
    /\ ctxLive' = EVP_PKEY_CTX_free(ctxLive, imp.k)
    /\ IF ImportMessageReadsNull(imp.sel, key[imp.k].handle # NULL, dmsgOn)
       THEN /\ fault' = "null_deref"
            /\ UNCHANGED <<imp, imported, privBuilt>>
       ELSE /\ imp' = [imp EXCEPT !.pc = "ret", !.ret = 1]
            /\ imported' = imported \cup {imp.k}
            /\ privBuilt' = IF key[imp.k].handle # NULL
                            THEN privBuilt \cup {imp.k} ELSE privBuilt
            /\ UNCHANGED fault
    /\ UNCHANGED <<key, evp, pend>>
    /\ ImportFrame

\* The importing thread takes the result of its call.
import_returns ==
    /\ fault = "none"
    /\ imp.pc = "ret"
    /\ imp' = NoImport
    /\ UNCHANGED <<key, evp, ctxLive, imported, privBuilt, fault, pend>>
    /\ ImportFrame

\* One store of the import becomes visible to the other threads; nothing in
\* keymgmt_import orders this for the two fields.
store_visible(s) ==
    /\ s \in pend
    /\ pend' = pend \ {s}
    /\ UNCHANGED <<key, evp, ctxLive, imported, privBuilt, fault, imp>>
    /\ ImportFrame

NextImport ==
    \/ \E k \in Live, s \in Selections, p \in Params, n \in Names :
           import_enter(k, s, p, n)
    \/ import_line187
    \/ \E n \in NativeOutcomes : import_line197(n)
    \/ import_line214
    \/ \E b \in BOOLEAN : import_line216(b)
    \/ import_line222
    \/ \E d \in BOOLEAN : import_line226(d)
    \/ import_returns
    \/ \E s \in pend : store_visible(s)

\* One thread importing into the records, statement by statement, while
\* other threads can read them.
SpecImport == InitSettled /\ [][NextImport]_vars

\* ------------------------------------------------------------- claims

\* The native objects the import on record k created and that are still
\* allocated.
NativeOf(k) == {o \in {<<k, "pub">>, <<k, "priv">>} : evp[o] # NoKey}

\* C1: once an import on a record has returned success, every later import
\* on that record returns failure and leaves the record as it was.
C1_PopulateOnce ==
    [][\A k \in imported :
          (last'.op = "import" /\ last'.k1 = k)
              => (last'.ret = 0 /\ key'[k] = key[k])]_vars

\* A second import has been refused on a record populated with a public key
\* only.
C1_Witness ==
    /\ last.op = "import" /\ last.ret = 0 /\ ~last.deleg
    /\ last.k1 \in imported \ privBuilt

\* C2: an import that returns failure leaves the records, the native key
\* objects and the constructor contexts as they were before the call: what
\* the call created it has released, and an empty record is still empty.
C2_ImportRollback ==
    [][(last'.op = "import" /\ last'.ret = 0)
          => (key' = key /\ evp' = evp /\ ctxLive' = ctxLive)]_vars

\* The native construction has failed on an empty record.
C2_Witness ==
    /\ last.op = "import" /\ last.ret = 0 /\ last.deleg
    /\ ~ImportNotEmpty(key[last.k1])
    /\ key[last.k1].origin = "ORIGIN_UNDEFINED"

\* C3: once a record is destroyed, no native key object created by its
\* import remains allocated (the private key held as handle is released
\* together with the public key).
C3_DestroyReleasesNative ==
    \A k \in Keys : key[k].mem = "freed" => NativeOf(k) = {}

\* C4: a release on a record already destroyed is a no-op that touches no
\* freed memory and frees nothing twice.
C4_DoubleReleaseSafe ==
    (last.op = "free" /\ last.k1 # NULL /\ key[last.k1].mem = "freed")
        => fault = "none"

\* C5: the release that brings refcount to zero destroys the record, and a
\* destroyed record leaves no native key object behind.
C5_ReleaseAtZeroDestroys ==
    (last.op = "free" /\ last.k1 # NULL)
        => /\ key[last.k1].mem = "live" => key[last.k1].refcount > 0
           /\ key[last.k1].mem = "freed" => NativeOf(last.k1) = {}

\* C6 as stated: has returns true only if the public key is present
\* whenever the public or the domain-parameters bit is requested, and the
\* private handle is present whenever the private bit is requested.
C6_HasHonoursEveryBit ==
    (last.op = "has" /\ last.ret # 0)
        => /\ last.k1 # NULL
           /\ Requests(last.sel, OSSL_KEYMGMT_SELECT_PUBLIC_KEY
                                   \cup OSSL_KEYMGMT_SELECT_DOMAIN_PARAMETERS)
                  => key[last.k1].pubkey # NULL
           /\ Requests(last.sel, OSSL_KEYMGMT_SELECT_PRIVATE_KEY)
                  => key[last.k1].handle # NULL

\* C6 as amended: has returns true exactly when the record is not NULL, the
\* public key is present if the public bit is requested and the private
\* handle is present if the private bit is requested; the domain-parameters
\* bit is not looked at.
C6_HasPublicPrivateBits ==
    last.op = "has"
        => /\ last.ret \in {0, 1}
           /\ last.ret = 1
                 <=> /\ last.k1 # NULL
                     /\ "PUBLIC_KEY" \in last.sel => key[last.k1].pubkey # NULL
                     /\ "PRIVATE_KEY" \in last.sel => key[last.k1].handle # NULL

\* has with the domain-parameters bit alone has answered true on a record
\* without a public key.
C6_Witness ==
    /\ last.op = "has" /\ last.ret = 1
    /\ last.sel = OSSL_KEYMGMT_SELECT_DOMAIN_PARAMETERS
    /\ last.k1 # NULL /\ key[last.k1].pubkey = NULL

\* C7: match with a selection that requests the key pair returns true only
\* if both records have a public key and the native equality test answers
\* equal (1); likewise for the domain parameters and the native parameter
\* test.
C7_MatchNeedsNativeEqual ==
    (last.op = "match" /\ last.ret # 0)
        => /\ Requests(last.sel, OSSL_KEYMGMT_SELECT_KEYPAIR)
                  => /\ MatchBothPublic(last.k1, last.k2) = 1
                     /\ EVP_PKEY_eq(Deref(key[last.k1].pubkey),
                                    Deref(key[last.k2].pubkey)) = 1
           /\ Requests(last.sel, OSSL_KEYMGMT_SELECT_DOMAIN_PARAMETERS)
                  => /\ MatchBothPublic(last.k1, last.k2) = 1
                     /\ EVP_PKEY_parameters_eq(Deref(key[last.k1].pubkey),
                                               Deref(key[last.k2].pubkey)) = 1

\* C8: match answers the same with its two records exchanged, and a record
\* on which an import succeeded matches itself for the key pair.
C8_MatchReflexiveSymmetric ==
    last.op = "match"
        => /\ last.ret = MatchResult(last.k2, last.k1, last.sel)
           /\ (/\ last.k1 = last.k2
               /\ last.k1 \in imported
               /\ last.sel = OSSL_KEYMGMT_SELECT_KEYPAIR) => last.ret = 1

\* match for the key pair has answered false for two populated records
\* whose public keys differ.
C8_Witness ==
    /\ last.op = "match" /\ last.ret = 0
    /\ last.k1 \in imported /\ last.k2 \in imported /\ last.k1 # last.k2
    /\ last.sel = OSSL_KEYMGMT_SELECT_KEYPAIR

\* C9: on a live record, has for the private key is true exactly when an
\* import on the record asked for the private key, succeeded and built the
\* private half.
C9_PrivateCapability ==
    /\ \A k \in Live :
          HasResult(k, OSSL_KEYMGMT_SELECT_PRIVATE_KEY) # 0 <=> k \in privBuilt
    /\ (last.op = "has" /\ last.k1 # NULL
        /\ last.sel = OSSL_KEYMGMT_SELECT_PRIVATE_KEY)
           => (last.ret # 0 <=> last.k1 \in privBuilt)

\* has for the private key has answered true.
C9_Witness ==
    /\ last.op = "has" /\ last.ret = 1
    /\ last.sel = OSSL_KEYMGMT_SELECT_PRIVATE_KEY
    /\ last.k1 \in privBuilt

\* C10: on a live record, has for the public key is true exactly when
\* get_params is handed to the native public key; a record without a public
\* key is answered 0 by get_params and false by has.
C10_PublicCapability ==
    /\ \A k \in Live :
          HasResult(k, OSSL_KEYMGMT_SELECT_PUBLIC_KEY) # 0 <=> ~GetParamsRefused(k)
    /\ (last.op = "get_params" /\ last.k1 # NULL)
           => /\ last.deleg <=> HasResult(last.k1, OSSL_KEYMGMT_SELECT_PUBLIC_KEY) # 0
              /\ key[last.k1].pubkey = NULL => last.ret = 0

\* get_params has been refused on an empty record.
C10_Witness ==
    /\ last.op = "get_params" /\ last.k1 \in Live
    /\ key[last.k1].pubkey = NULL /\ last.ret = 0 /\ ~last.deleg

\* C11: an import on an empty record that asks for the public and the
\* private key, builds the public key and fails to build the private one
\* returns success, with the public key attached, no handle and the origin
\* OPENSSL_NATIVE.
C11_PartialImportSucceeds ==
    /\ fault # "null_deref"
    /\ (/\ last.op = "import" /\ last.ret = 1
        /\ OSSL_KEYMGMT_SELECT_KEYPAIR \subseteq last.sel
        /\ last.k1 \notin privBuilt)
           => /\ key[last.k1].pubkey # NULL
              /\ key[last.k1].handle = NULL
              /\ key[last.k1].origin = "OPENSSL_NATIVE"

C13_SetParamsImmutable ==
    [][\A k \in Keys :
          (key[k].handle # NULL /\ last'.op = "set_params" /\ last'.k1 = k)
              => /\ last'.ret = 1 /\ ~last'.deleg
                 /\ key' = key /\ evp' = evp]_vars

\* set_params has been answered on a record with a handle.
C13_Witness ==
    /\ last.op = "set_params" /\ last.ret = 1 /\ ~last.deleg
    /\ key[last.k1].handle # NULL

\* C14: whenever init returns success the provider context holds a child
\* library context with the exclusion property set on it; when it returns
\* failure the host has no context.
C14_InitAllOrNothing ==
    last.op = "init"
        => /\ last.ret = 1 => (prov.libctx # NULL /\ prov.childProps)
           /\ last.ret = 0 => ~prov.loaded

\* C15: every native key the import builds is built in the provider's own
\* child library context, and the exclusion property is set on that context
\* only, never on the host's default library context.
C15_Isolation ==
    /\ \A o \in EvpObjects : evp[o] # NoKey => evp[o].libctx = "child"
    /\ ~prov.hostProps

\* C16: for every selection, the answer match has given for a pair of
\* records is the answer it gives for every pair of live records whose
\* public keys agree with theirs, whatever the handle, origin and refcount.
C16_MatchIgnoresPrivate ==
    (last.op = "match" /\ last.k1 # NULL /\ last.k2 # NULL)
        => \A c, d \in Live :
               (/\ Deref(key[last.k1].pubkey) = Deref(key[c].pubkey)
                /\ Deref(key[last.k2].pubkey) = Deref(key[d].pubkey))
                   => MatchResult(c, d, last.sel) = last.ret

\* match with the private-key bit alone has answered true for two records
\* with equal public keys, one with a handle and one without.
C16_Witness ==
    /\ last.op = "match" /\ last.ret = 1
    /\ last.sel = OSSL_KEYMGMT_SELECT_PRIVATE_KEY
    /\ last.k1 \in Live /\ last.k2 \in Live
    /\ key[last.k1].handle # NULL /\ key[last.k2].handle = NULL
    /\ Deref(key[last.k1].pubkey) = Deref(key[last.k2].pubkey)

\* C17: set_params on a record whose origin is not OPENSSL_NATIVE returns 0
\* without calling the native setter and changes nothing; the native setter
\* is called only for a record with origin OPENSSL_NATIVE and no handle.
C17_SetParamsRefused ==
    [][\A k \in Keys :
          (last'.op = "set_params" /\ last'.k1 = k)
              => /\ key[k].origin # "OPENSSL_NATIVE"
                      => /\ last'.ret = 0 /\ ~last'.deleg
                         /\ key' = key /\ evp' = evp
                 /\ last'.deleg
                      => /\ key[k].origin = "OPENSSL_NATIVE"
                         /\ key[k].handle = NULL]_vars

\* set_params has been refused on an empty record.
C17_Witness ==
    /\ last.op = "set_params" /\ last.ret = 0 /\ ~last.deleg
    /\ key[last.k1].origin = "ORIGIN_UNDEFINED"
    /\ ~ImportNotEmpty(key[last.k1])

\* The origin of every live record follows its public key.
OriginTracksPublicKey ==
    \A k \in Live :
        /\ key[k].origin = "OPENSSL_NATIVE" <=> key[k].pubkey # NULL
        /\ key[k].origin = "ORIGIN_UNDEFINED" <=> ~ImportNotEmpty(key[k])
        /\ key[k].origin # "EXTERNAL_KEY"

\* C20 as stated: the origin follows the public key, and set_params fails on
\* exactly the empty records.
C20_SetParamsFailsOnEmptyOnly ==
    /\ OriginTracksPublicKey
    /\ last.op = "set_params"
          => (last.ret = 0 <=> ~ImportNotEmpty(key[last.k1]))

\* C20 as amended: the origin follows the public key, and set_params is
\* refused by the core, without a call of the native setter, on exactly the
\* empty records.
C20_OriginTracksPopulation ==
    /\ OriginTracksPublicKey
    /\ last.op = "set_params"
          => ((last.ret = 0 /\ ~last.deleg) <=> ~ImportNotEmpty(key[last.k1]))

\* The native setter has failed on a populated record.
C20_Witness ==
    /\ last.op = "set_params" /\ last.ret = 0 /\ last.deleg
    /\ key[last.k1].origin = "OPENSSL_NATIVE"

\* What the call of a thread returns when it runs alone in the records as
\* they are.
AloneResult(c) ==
    CASE c.op = "has" -> HasResult(c.k1, c.sel)
      [] c.op = "match" -> MatchResult(c.k1, c.k2, c.sel)
      [] OTHER -> GetParamsResult(c.k1, c.nat)

\* C18: the read-only callbacks are race-free: no step of keymgmt_has,
\* keymgmt_match or keymgmt_get_params writes a field of a record or a
\* native key, and under every interleaving of the threads each call
\* returns what it returns when run alone in the same records.
C18_ReadOnlyRaceFree ==
    [][/\ key' = key
       /\ evp' = evp
       /\ \A t \in Threads :
             (thr'[t].pc = "ret" /\ thr[t].pc # "ret")
                 => thr'[t].acc = AloneResult(thr'[t])]_vars

\* One thread has been answered 1 by keymgmt_has for the key pair of its
\* record while the other is in the middle of a keymgmt_match that has
\* found both public keys.
C18_Witness ==
    /\ thr["t1"].pc = "ret" /\ thr["t1"].op = "has" /\ thr["t1"].acc = 1
    /\ thr["t1"].sel = OSSL_KEYMGMT_SELECT_KEYPAIR
    /\ thr["t2"].pc = "match_307" /\ thr["t2"].acc = 1
    /\ thr["t2"].k2 = "k1"

\* C19 as stated: in every state, the intermediate steps of an import as
\* another thread sees them included, a live record with the private handle
\* has the public key, and keymgmt_has answering true for the private key
\* answers true for the public key.
C19_ReaderNeverSeesPrivateAlone ==
    \A k \in Live :
        /\ View(k).handle # NULL => View(k).pubkey # NULL
        /\ ReaderHas(k, OSSL_KEYMGMT_SELECT_PRIVATE_KEY) # 0
               => ReaderHas(k, OSSL_KEYMGMT_SELECT_PUBLIC_KEY) # 0

\* C19, amended: in the order of the importing thread, at every step of the
\* import, a live record with the private handle has the public key and
\* keymgmt_has true for the private key is true for the public key; another
\* thread sees the same once no store to the record is pending.
C19_PrivateNeverWithoutPublic ==
    \A k \in Live :
        /\ key[k].handle # NULL => key[k].pubkey # NULL
        /\ HasResult(k, OSSL_KEYMGMT_SELECT_PRIVATE_KEY) # 0
               => HasResult(k, OSSL_KEYMGMT_SELECT_PUBLIC_KEY) # 0
        /\ (\A f \in {"pubkey", "handle"} : <<k, f>> \notin pend)
               => (ReaderHas(k, OSSL_KEYMGMT_SELECT_PRIVATE_KEY) # 0
                      => ReaderHas(k, OSSL_KEYMGMT_SELECT_PUBLIC_KEY) # 0)

\* The import stands between the two attachments: the public key is in the
\* record and the private key, just built, is not yet.
C19_Witness ==
    /\ imp.pc = "import_222"
    /\ key[imp.k].pubkey # NULL
    /\ key[imp.k].handle = NULL
    /\ evp[<<imp.k, "priv">>] # NoKey

====
